---- MODULE Spec2Model ----
(***************************************************************************)
(* Model of the configuration type-grammar validator of                    *)
(* src/config/config_base.py (class ConfigBase): the per-field annotation  *)
(* checks run by model_post_init at construction, and the validator        *)
(* methods called directly on an instance.                                 *)
(***************************************************************************)
EXTENDS Integers, Sequences, FiniteSets, TLC

\* ------------------------------------------------------------ bounds
\* largest number of declared fields of a modelled class
MaxFields == 2
\* largest number of warnings kept in the logger while methods are called
MaxLog == 2
\* largest number of statements in a modelled class body
MaxBody == 3
\* number of constructions of one class that may run concurrently
MaxThreads == 2
\* largest number of characters of a documentation string
MaxText == 5
\* largest number of items of a learning list
MaxItems == 2

\* ------------------------------------------------------- annotations
\* An annotation is [base, gen, args]: `gen` tells whether typing.get_origin
\* finds an origin (a subscripted generic, a bare typing alias such as
\* typing.List, or a union); a plain class (int, list, a model class) and
\* typing.Any have gen = FALSE.
Leaf(b) == [base |-> b, gen |-> FALSE, args |-> <<>>]

Alias(b, as) == [base |-> b, gen |-> TRUE, args |-> as]

IntT == Leaf("int")

StrT == Leaf("str")

NoneT == Leaf("NoneType")

AnyT == Leaf("Any")

\* a subclass of ConfigBase
ConfigT == Leaf("ConfigModel")

\* a pydantic BaseModel subclass that does not extend ConfigBase
PlainT == Leaf("PlainModel")

\* typing.get_origin: None for a plain class and for typing.Any
get_origin(a) == IF a.gen THEN a.base ELSE "None"

\* typing.get_args
get_args(a) == IF a.gen THEN a.args ELSE <<>>

\* typing.Union[...] / X | Y as Python builds them: nested unions are
\* flattened, duplicate arms dropped, a union of one arm is that arm.
UnionOrigins == {"Union", "UnionType"}

RECURSIVE FlattenArms(_)
FlattenArms(as) ==
    IF as = <<>> THEN <<>>
    ELSE LET h == Head(as)
             hs == IF h.gen /\ h.base \in UnionOrigins THEN h.args ELSE <<h>>
         IN  hs \o FlattenArms(Tail(as))

RECURSIVE DedupArms(_, _)
DedupArms(as, seen) ==
    IF as = <<>> THEN <<>>
    ELSE IF Head(as) \in seen THEN DedupArms(Tail(as), seen)
    ELSE <<Head(as)>> \o DedupArms(Tail(as), seen \cup {Head(as)})

MkUnion(kind, as) ==
    LET arms == DedupArms(FlattenArms(as), {})
    IN  IF Len(arms) = 1 THEN arms[1] ELSE Alias(kind, arms)

\* typing.Optional[T]
Optional(t) == MkUnion("Union", <<t, NoneT>>)

IsUnion(a) == a.gen /\ a.base \in UnionOrigins

\* ------------------------------------------- the annotations modelled
\* the atomic types
AtomTypes == {Leaf(b) : b \in {"int", "float", "str", "bool", "complex", "bytes", "NoneType"}}

\* unparameterized containers: the builtin class (list) and the bare typing
\* alias (typing.List), which alone has an origin
BareTypes == {Leaf(b) : b \in {"list", "set", "dict", "tuple"}}
             \cup {Alias(b, <<>>) : b \in {"list", "set", "dict", "tuple"}}

\* typing.Literal["a"]: its origin is Literal, its parameter a value
LiteralT == Alias("Literal", <<Leaf("'a'")>>)

SimpleTypes == AtomTypes \cup {AnyT, ConfigT, PlainT, LiteralT} \cup BareTypes

ListSetOf(E) == {Alias(b, <<e>>) : b \in {"list", "set"}, e \in E}

DictOf(K, V) == {Alias("dict", <<k, v>>) : k \in K, v \in V}

KeyTypes == {StrT, AnyT}

\* element and value types of the first level
ElemTypes == {IntT, StrT, NoneT, AnyT, ConfigT, PlainT, Leaf("list"), Leaf("dict"),
              Leaf("tuple"), Alias("list", <<>>), Alias("dict", <<>>)}

\* containers with a wrong number of parameters (list[int, int], dict[int], ...)
\* and tuples
OddTypes == {Alias("list", <<IntT, IntT>>), Alias("set", <<IntT, IntT>>),
             Alias("dict", <<IntT>>), Alias("dict", <<StrT, IntT, IntT>>),
             Alias("tuple", <<IntT, IntT>>), Alias("tuple", <<IntT>>)}

Level1Types == ListSetOf(ElemTypes) \cup DictOf(KeyTypes, ElemTypes) \cup OddTypes

\* element and value types that are themselves generic
InnerTypes ==
    {Alias("list", <<IntT>>), Alias("set", <<IntT>>), Alias("list", <<AnyT>>),
     Alias("set", <<ConfigT>>), Alias("list", <<Leaf("list")>>),
     Alias("list", <<Alias("list", <<IntT>>)>>), Alias("set", <<Alias("dict", <<StrT, IntT>>)>>),
     Alias("list", <<IntT, IntT>>), Alias("dict", <<StrT, IntT>>),
     Alias("tuple", <<IntT, IntT>>),
     Optional(IntT), MkUnion("UnionType", <<IntT, NoneT>>), MkUnion("Union", <<NoneT, IntT>>),
     Optional(AnyT), Optional(ConfigT), Optional(Alias("list", <<IntT>>)),
     Optional(Alias("list", <<AnyT>>)), Optional(Alias("dict", <<StrT, IntT>>)),
     Optional(Alias("list", <<Alias("list", <<IntT>>)>>)),
     MkUnion("Union", <<IntT, StrT>>), MkUnion("UnionType", <<IntT, StrT>>)}

Level2Types == ListSetOf(InnerTypes) \cup DictOf(KeyTypes, InnerTypes)

NonUnionTypes == SimpleTypes \cup Level1Types \cup Level2Types

\* Optional[T] and T | None of every annotation above, in both arm orders
OptionalTypes ==
    {MkUnion(k, <<t, NoneT>>) : k \in UnionOrigins, t \in NonUnionTypes}
    \cup {MkUnion(k, <<NoneT, t>>) : k \in UnionOrigins, t \in SimpleTypes}

\* the arms unions are built from
ArmTypes == {IntT, StrT, NoneT, AnyT, Alias("list", <<IntT>>)}

\* unions of two and three arms, and Optional[...] of them
OtherUnions ==
    {MkUnion(k, <<a, b>>) : k \in UnionOrigins, a \in ArmTypes, b \in ArmTypes}
    \cup {MkUnion(k, <<a, b, c>>) : k \in UnionOrigins, a \in ArmTypes, b \in ArmTypes,
                                    c \in {NoneT, StrT}}
    \cup {MkUnion(k, <<MkUnion(k, <<a, b>>), NoneT>>) : k \in UnionOrigins,
                                    a \in ArmTypes, b \in ArmTypes}

Annotations == NonUnionTypes \cup OptionalTypes \cup OtherUnions

\* the annotations of the classes that declare several fields
SmallTypes == {IntT, AnyT, ConfigT, Leaf("list"), Alias("tuple", <<IntT, IntT>>),
               MkUnion("Union", <<IntT, StrT>>), Optional(IntT), Alias("list", <<IntT>>),
               Alias("list", <<AnyT>>), Alias("dict", <<StrT, AnyT>>),
               Alias("list", <<Alias("list", <<IntT>>)>>)}

\* the modelled classes: their declared fields, in order
Classes == {<<>>} \cup {<<a>> : a \in Annotations}
           \cup UNION {[1..n -> SmallTypes] : n \in 2..MaxFields}

\* ------------------------------------------------------------- state
VARIABLES
    fields,                 \* type(self).model_fields: the declared annotations, in declaration order
    validate_any,           \* the class's _validate_any (strictness flag)
    suppress_any_warning,   \* the class's suppress_any_warning (silence flag)
    source,                 \* the ClassDef nodes of the class's source file, in ast.walk order
    hook,                   \* the class's own model_post_init: "none", or how its checks end
    pc,                     \* position of the construction
    idx,                    \* number of fields model_post_init has examined
    result,                 \* the exception that ended the construction, or NoErr
    log,                    \* logger.warning records: the field name of each
    call,                   \* the last direct call of a validator method and its outcome
    ran,                    \* the steps of the construction so far, in the order they ran
    field_docs,             \* the instance's field_docs
    threads,                \* concurrent constructions of the class: the position and result of each
    extractions,            \* how many times _get_field_docs has run
    kwargs,                 \* the keys the constructor was called with
    vals,                   \* the kind of value each field holds, by position
    nested,                 \* the declared fields of the class a nested field is typed as
    assign,                 \* the last reassignment of a field and its outcome
    expr,                   \* a call of get_expression_config_for_chat: its arguments and result
    mirror                  \* a MirrorManager: its cache and the calls made on it

\* the class as declared
classVars == <<fields, validate_any, suppress_any_warning, source, hook>>

\* one construction
instVars == <<pc, idx, result, ran, field_docs>>

\* the values a construction is given and an instance holds
valueVars == <<kwargs, vals, nested, assign>>

\* the helpers outside the configuration classes
utilVars == <<expr, mirror>>

vars == <<classVars, instVars, log, call, threads, extractions, valueVars, utilVars>>

\* the names of the declared fields, by position
FieldNames == <<"f", "g", "h", "k">>

\* ------------------------------------------------------- exceptions
\* A raised exception: its kind and what its message carries (the class
\* name, the field name, the rendered annotation).
NoAnno == Leaf("-")

NoErr == [kind |-> "ok", cls |-> FALSE, field |-> "", anno |-> NoAnno]

Err(kind, cls, field, anno) == [kind |-> kind, cls |-> cls, field |-> field, anno |-> anno]

Ok == [err |-> NoErr, warns |-> <<>>]

Raise(e) == [err |-> e, warns |-> <<>>]

\* statement sequencing: the second statement runs only if the first did not raise
Then(o1, o2) ==
    IF o1.err # NoErr THEN o1
    ELSE [err |-> o2.err, warns |-> o1.warns \o o2.warns]

\* ------------------------------------------------------- validators
\* mutant: the strictness flag is not consulted, the usage is only logged
DiscourageAnyUsageLenient(field_name) ==
    [err |-> NoErr, warns |-> <<field_name>>]

\* mutant: with the flag lowered nothing is logged
DiscourageAnyUsageMute(field_name) ==
    IF validate_any
    THEN Raise(Err("AnyUsage", FALSE, field_name, NoAnno))
    ELSE Ok

\* mutant: the message of the Any violation does not name the field
DiscourageAnyUsageAnonymous(field_name) ==
    IF validate_any
    THEN Raise(Err("AnyUsage", FALSE, "", NoAnno))
    ELSE [err |-> NoErr, warns |-> <<field_name>>]

\* ConfigBase._discourage_any_usage
DiscourageAnyUsage(field_name) ==
    IF validate_any
    THEN Raise(Err("AnyUsage", FALSE, field_name, NoAnno))
    ELSE [err |-> NoErr, warns |-> <<field_name>>]

\* ConfigBase._get_real_type
GetRealType(annotation) ==
    IF get_origin(annotation) = "None"
    THEN [origin |-> annotation.base, args |-> <<>>]
    ELSE [origin |-> get_origin(annotation), args |-> get_args(annotation)]

\* mutant: only the number of arms is tested
NotOptionalArmsByCount(args) == Len(args) # 2

\* the test of line 138: not an Optional
NotOptionalArms(args) ==
    Len(args) # 2 \/ \A i \in 1..Len(args) : args[i] # NoneT

\* ConfigBase._validate_union_type: [err, origin, args, other]
ValidateUnionType(annotation, field_name) ==
    LET rt == GetRealType(annotation)
        bad == [err |-> Err("Union", TRUE, field_name, NoAnno),
                origin |-> "None", args |-> <<>>, other |-> NoAnno]
    IN  IF rt.origin \in UnionOrigins
        THEN IF NotOptionalArms(rt.args)
             THEN bad
             ELSE LET other == IF rt.args[2] = NoneT THEN rt.args[1] ELSE rt.args[2]
                      rt2 == GetRealType(other)
                  IN  IF rt2.origin \in UnionOrigins
                      THEN bad
                      ELSE [err |-> NoErr, origin |-> rt2.origin,
                            args |-> rt2.args, other |-> other]
        ELSE [err |-> NoErr, origin |-> rt.origin, args |-> rt.args, other |-> annotation]

ListSetOrigins == {"list", "set"}

\* mutant: only too few parameters are an error
WrongArityTooFew(args, n) == Len(args) < n

\* the tests of lines 153 and 168: not exactly n type parameters
WrongArity(args, n) == Len(args) # n

\* mutant: the element's origin is not looked at
ValidateElemAnyOnly(elem, annotation, field_name) ==
    IF elem = AnyT THEN DiscourageAnyUsage(field_name) ELSE Ok

\* the element checks of lines 157-163
ValidateElem(elem, annotation, field_name) ==
    Then(IF elem = AnyT THEN DiscourageAnyUsage(field_name) ELSE Ok,
         IF get_origin(elem) # "None"
         THEN Raise(Err("NestedGeneric", TRUE, field_name, annotation))
         ELSE Ok)

\* ConfigBase._validate_list_set_type
ValidateListSetType(annotation, field_name) ==
    LET rt == GetRealType(annotation)
    IN  IF rt.origin \in ListSetOrigins
        THEN IF WrongArity(rt.args, 1)
             THEN Raise(Err("Arity", TRUE, field_name, annotation))
             ELSE ValidateElem(rt.args[1], annotation, field_name)
        ELSE Ok

\* mutant: every value with an origin is a nested generic
ValidateDictValueFlat(val_t, annotation, field_name) ==
    Raise(Err("NestedGeneric", TRUE, field_name, annotation))

\* the value checks of lines 173-185, for a value that has an origin
ValidateDictValue(val_t, annotation, field_name) ==
    LET u == ValidateUnionType(val_t, field_name)
    IN  IF u.err # NoErr THEN Raise(u.err)
        ELSE IF u.origin \in ListSetOrigins THEN ValidateListSetType(u.other, field_name)
        ELSE IF u.origin = "Any" THEN DiscourageAnyUsage(field_name)
        ELSE Raise(Err("NestedGeneric", TRUE, field_name, annotation))

\* mutant: the Any policy is applied to the key as well
ValidateDictTypeKeyChecked(annotation, field_name) ==
    LET rt == GetRealType(annotation)
    IN  IF WrongArity(rt.args, 2)
        THEN Raise(Err("Arity", TRUE, field_name, annotation))
        ELSE LET val_t == rt.args[2]
             IN  Then(IF val_t = AnyT \/ rt.args[1] = AnyT
                      THEN DiscourageAnyUsage(field_name) ELSE Ok,
                      IF get_origin(val_t) # "None"
                      THEN ValidateDictValue(val_t, annotation, field_name)
                      ELSE Ok)

\* ConfigBase._validate_dict_type
ValidateDictType(annotation, field_name) ==
    LET rt == GetRealType(annotation)
    IN  IF WrongArity(rt.args, 2)
        THEN Raise(Err("Arity", TRUE, field_name, annotation))
        ELSE LET val_t == rt.args[2]
             IN  Then(IF val_t = AnyT THEN DiscourageAnyUsage(field_name) ELSE Ok,
                      IF get_origin(val_t) # "None"
                      THEN ValidateDictValue(val_t, annotation, field_name)
                      ELSE Ok)

\* mutant: the Tuple test is missing
TupleOriginsNone == {}

\* the origins of line 203
TupleOrigins == {"tuple"}

\* the atomic origins of line 210
AtomicOrigins == {"int", "float", "str", "bool", "complex", "bytes", "NoneType", "Any"}

\* mutant: every pydantic model class counts as a nested configuration class
IsConfigBaseClassAnyModel(origin_type) == origin_type \in {"ConfigModel", "PlainModel"}

\* inspect.isclass(origin_type) and issubclass(origin_type, ConfigBase)
IsConfigBaseClass(origin_type) == origin_type = "ConfigModel"

ContainerOrigins == {"list", "set", "dict"}

\* lines 220-225: dispatch to the container validators
ValidateContainer(origin_type, annotation, field_name) ==
    Then(IF origin_type \in ListSetOrigins
         THEN ValidateListSetType(annotation, field_name) ELSE Ok,
         IF origin_type = "dict"
         THEN ValidateDictType(annotation, field_name) ELSE Ok)

\* mutant: the checks after line 201 still see the annotation as declared
UnwrappedAnnotationKept(u, annotation0) == annotation0

\* the annotation the checks after line 201 use: line 201 rebinds `annotation`
\* to the unwrapped annotation _validate_union_type returns
UnwrappedAnnotation(u, annotation0) == u.other

\* lines 209-225: the checks on the unwrapped annotation
ValidateUnwrapped(origin_type, annotation, field_name) ==
    IF origin_type \in AtomicOrigins THEN Ok
    ELSE IF IsConfigBaseClass(origin_type) THEN Ok
    ELSE IF origin_type \notin ContainerOrigins
    THEN Raise(Err("UnsupportedGeneric", TRUE, field_name, annotation))
    ELSE ValidateContainer(origin_type, annotation, field_name)

\* one iteration of the loop of ConfigBase.model_post_init (lines 198-225)
ValidateField(annotation0, field_name) ==
    LET u == ValidateUnionType(annotation0, field_name)
    IN  IF u.err # NoErr THEN Raise(u.err)
        ELSE IF u.origin \in TupleOrigins
        THEN Raise(Err("Tuple", TRUE, field_name, NoAnno))
        ELSE Then(IF u.origin = "Any" THEN DiscourageAnyUsage(field_name) ELSE Ok,
                  ValidateUnwrapped(u.origin, UnwrappedAnnotation(u, annotation0),
                                    field_name))

\* ---------------------------------------------------- documentation
\* A statement of a class body, as ast.parse returns it.
AnnAssign(name) == [kind |-> "AnnAssign", name |-> name, text |-> <<>>]

\* an annotated assignment whose target is not a simple name (a.b: int = 1)
AnnAssignAttr == [kind |-> "AnnAssignAttr", name |-> "", text |-> <<>>]

\* an assignment without annotation (x = 1)
Assign == [kind |-> "Assign", name |-> "", text |-> <<>>]

\* an expression statement that is a string constant
ExprStr(text) == [kind |-> "ExprStr", name |-> "", text |-> text]

FunctionDef(name) == [kind |-> "FunctionDef", name |-> name, text |-> <<>>]

AsyncFunctionDef(name) == [kind |-> "AsyncFunctionDef", name |-> name, text |-> <<>>]

\* the texts of the string statements: a sequence of characters each
DocTexts == {<<"a">>, <<" ", "a", "\n", " ", "\n", " ", "b", " ">>}

Statements ==
    {AnnAssign(n) : n \in {"f", "g"}} \cup {AnnAssignAttr, Assign}
    \cup {ExprStr(d) : d \in DocTexts}
    \cup {FunctionDef(n) : n \in {"model_post_init", "helper"}}
    \cup {AsyncFunctionDef("helper")}

Bodies == UNION {[1..n -> Statements] : n \in 0..MaxBody}

\* str.strip() and the whitespace it removes
Whitespace == {" ", "\n"}

RECURSIVE LStrip(_)
LStrip(s) ==
    IF s # <<>> /\ Head(s) \in Whitespace THEN LStrip(Tail(s)) ELSE s

RECURSIVE RStrip(_)
RStrip(s) ==
    IF s # <<>> /\ s[Len(s)] \in Whitespace THEN RStrip(SubSeq(s, 1, Len(s) - 1)) ELSE s

Strip(s) == RStrip(LStrip(s))

\* the characters of s before its first line break
RECURSIVE FirstLine(_)
FirstLine(s) ==
    IF s = <<>> \/ Head(s) = "\n" THEN <<>> ELSE <<Head(s)>> \o FirstLine(Tail(s))

\* str.splitlines()
RECURSIVE SplitLines(_)
SplitLines(s) ==
    IF s = <<>> THEN <<>>
    ELSE LET line == FirstLine(s)
         IN  <<line>> \o SplitLines(SubSeq(s, Len(line) + 2, Len(s)))

\* lines 96-97: while the first line is empty, pop it
RECURSIVE DropLeadingBlank(_)
DropLeadingBlank(ls) ==
    IF ls # <<>> /\ Head(ls) = <<>> THEN DropLeadingBlank(Tail(ls)) ELSE ls

\* lines 100-101: while the last line is empty, pop it
RECURSIVE DropTrailingBlank(_)
DropTrailingBlank(ls) ==
    IF ls # <<>> /\ ls[Len(ls)] = <<>>
    THEN DropTrailingBlank(SubSeq(ls, 1, Len(ls) - 1))
    ELSE ls

\* "\n".join(lines)
RECURSIVE Join(_)
Join(ls) ==
    IF ls = <<>> THEN <<>>
    ELSE IF Len(ls) = 1 THEN ls[1]
    ELSE ls[1] \o <<"\n">> \o Join(Tail(ls))

\* mutant: every blank line is dropped, the interior ones too
ProcessDocNoBlank(text) ==
    LET stripped == SplitLines(Strip(text))
        lines    == [i \in 1..Len(stripped) |-> Strip(stripped[i])]
    IN  Join(SelectSeq(lines, LAMBDA l : l # <<>>))

\* lines 92-105: the stored form of a documentation string
ProcessDoc(text) ==
    LET stripped == SplitLines(Strip(text))
        lines    == [i \in 1..Len(stripped) |-> Strip(stripped[i])]
    IN  Join(DropTrailingBlank(DropLeadingBlank(lines)))

\* a DocMap: field name -> documentation; the class attribute field_docs = {}
EmptyDocs == [n \in {} |-> <<>>]

\* doc_dict[name] = text
SetDoc(d, name, text) ==
    [n \in DOMAIN d \cup {name} |-> IF n = name THEN text ELSE d[n]]

\* mutant: every function definition is a method, the hook included
IsDisallowedMethodAny(item) ==
    item.kind = "FunctionDef"

\* line 70: a method other than model_post_init
IsDisallowedMethod(item) ==
    item.kind = "FunctionDef" /\ item.name # "model_post_init"

\* mutant: the string may follow the field anywhere later in the body
DocumentsLoose(body, i) ==
    /\ body[i].kind = "AnnAssign"
    /\ \E j \in (i + 1)..Len(body) : body[j].kind = "ExprStr"

\* lines 78-91: statement i is a field and statement i + 1 documents it
Documents(body, i) ==
    /\ i + 1 <= Len(body)
    /\ body[i].kind = "AnnAssign"
    /\ body[i + 1].kind = "ExprStr"

\* the loop of _extract_field_docs from statement i on, doc_dict being d
RECURSIVE ExtractFrom(_, _, _)
ExtractFrom(body, i, d) ==
    IF i > Len(body) THEN [err |-> NoErr, docs |-> d]
    ELSE IF IsDisallowedMethod(body[i])
    THEN [err |-> Err("DisallowedMethod", FALSE, body[i].name, NoAnno), docs |-> EmptyDocs]
    ELSE IF Documents(body, i)
    THEN ExtractFrom(body, i + 1, SetDoc(d, body[i].name, ProcessDoc(body[i + 1].text)))
    ELSE ExtractFrom(body, i + 1, d)

\* AttrDocBase._extract_field_docs
ExtractFieldDocs(class_node) == ExtractFrom(class_node.body, 1, EmptyDocs)

\* the name of the class under construction (cls.__name__)
ClassName == "C"

\* a class declaration of the source unit; own tells whether it is the
\* declaration the class under construction was created from, which the code
\* cannot see
ClassDef(name, body) == [name |-> name, body |-> body, own |-> name = ClassName]

\* the declaration of another class that has the same name (an earlier
\* definition of the name, or a class of this name in another scope)
Namesake(body) == [name |-> ClassName, body |-> body, own |-> FALSE]

\* the positions of the class declarations of the wanted name
Matches(nodes) == {i \in 1..Len(nodes) : nodes[i].name = ClassName}

\* mutant: the first class declaration is taken, whatever its name
FindClassNodeFirst(nodes) ==
    IF nodes = <<>>
    THEN [err |-> Err("ClassNotFound", TRUE, "", NoAnno), node |-> ClassDef("", <<>>)]
    ELSE [err |-> NoErr, node |-> nodes[1]]

\* AttrDocBase._find_class_node: the first ClassDef of the class's name
FindClassNode(nodes) ==
    IF Matches(nodes) = {}
    THEN [err |-> Err("ClassNotFound", TRUE, "", NoAnno), node |-> ClassDef("", <<>>)]
    ELSE [err |-> NoErr,
          node |-> nodes[CHOOSE i \in Matches(nodes) : \A j \in Matches(nodes) : i <= j]]

\* AttrDocBase._get_field_docs: the declaration is looked up, then read
GetFieldDocs(nodes) ==
    LET found == FindClassNode(nodes)
    IN  IF found.err # NoErr THEN [err |-> found.err, docs |-> EmptyDocs]
        ELSE ExtractFieldDocs(found.node)

\* the concurrent constructions of a class, and the concurrent callers
Threads == 1..MaxThreads

\* ---------------------------------------------------- MirrorManager
\* MirrorManager.MIRRORS, in the order of the dict; a name stands for its URL
MirrorOrder == <<"aliyun", "tsinghua", "tencent", "huawei", "official">>

Mirrors == {MirrorOrder[i] : i \in 1..Len(MirrorOrder)}

\* float('inf'): the mirror failed the test
Inf == 99

\* the latencies a speed test can measure, per mirror
Latencies == [Mirrors -> {1, 2, Inf}]

\* lines 84-88: the valid results, sorted by latency; sorted() is stable, so
\* among equal latencies the first mirror of the dict wins
BestMirror(lat) ==
    LET valid == {i \in 1..Len(MirrorOrder) : lat[MirrorOrder[i]] # Inf}
    IN  IF valid = {} THEN "None"
        ELSE MirrorOrder[CHOOSE i \in valid : \A k \in valid :
                            \/ lat[MirrorOrder[i]] < lat[MirrorOrder[k]]
                            \/ lat[MirrorOrder[i]] = lat[MirrorOrder[k]] /\ i <= k]

\* a call of get_fastest_mirror that has not begun; late tells whether a
\* speed test had completed when the call began
NewCaller == [pc |-> "idle", ret |-> "None", late |-> FALSE]

\* MirrorManager.__init__: nothing cached, no call made; completed and first
\* record whether a speed test has completed and what its call returned
NoMirror == [fastest_mirror |-> "None", callers |-> [t \in Threads |-> NewCaller],
             tests |-> 0, completed |-> FALSE, first |-> "None"]

\* ------------------------------------------------------ construction
\* no field has been reassigned
NoAssign == [field |-> 0, value |-> "", err |-> NoErr]

\* get_expression_config_for_chat has not been called
NoExpr == [learning_list |-> <<>>, chat_stream_id |-> <<>>, hash_fails |-> FALSE,
           pc |-> "idle", err |-> NoErr, ret |-> <<>>]

NoCall == [fn |-> "none", annotation |-> NoAnno, field_name |-> "", err |-> NoErr,
           origin |-> "None", args |-> <<>>, other |-> NoAnno]

\* the classes and declarations the documentation stage is explored with
PlainClasses == {<<>>, <<IntT>>}

SmallBodies == {b \in Bodies : Len(b) <= 1}

NodeBodies == SmallBodies \cup {<<AnnAssign("f"), ExprStr(<<"a">>)>>}

SmallNodes == {ClassDef(n, b) : n \in {ClassName, "Other"}, b \in NodeBodies}
              \cup {Namesake(b) : b \in NodeBodies}

\* the source units: the ClassDef nodes that ast.walk yields, in its order
SmallSources == {<<>>, <<ClassDef(ClassName, <<>>)>>,
                 <<ClassDef(ClassName, <<FunctionDef("model_post_init")>>)>>}

Sources == {<<ClassDef(ClassName, b)>> : b \in Bodies}
           \cup {<<x>> : x \in SmallNodes}
           \cup {p \in {<<x, y>> : x \in SmallNodes, y \in SmallNodes} : ~(p[1].own /\ p[2].own)}

\* documentation strings of up to MaxText characters: a letter, a blank, a
\* line break
Chars == {"a", " ", "\n"}

Texts == UNION {[1..n -> Chars] : n \in 0..MaxText}

\* declarations of one documented field
TextSources == {<<ClassDef(ClassName, <<AnnAssign("f"), ExprStr(t)>>)>> : t \in Texts}

Hooks == {"none", "pass", "fail"}

\* a construction that has not begun; late tells whether an instance of the
\* class existed already when the construction read the documentation
NewThread == [pc |-> "new", result |-> NoErr, local |-> EmptyDocs, field_docs |-> EmptyDocs,
              late |-> FALSE]

\* a class is declared and no instance of it exists yet
Init ==
    /\ \/ /\ fields \in Classes
          /\ validate_any \in BOOLEAN
          /\ suppress_any_warning \in BOOLEAN
          /\ source \in SmallSources
          /\ hook \in Hooks
       \/ /\ fields \in PlainClasses
          /\ validate_any = TRUE
          /\ suppress_any_warning = FALSE
          /\ source \in Sources \cup TextSources
          /\ hook = "none"
    /\ pc = "new"
    /\ idx = 0
    /\ result = NoErr
    /\ log = <<>>
    /\ call = NoCall
    /\ ran = <<>>
    /\ field_docs = EmptyDocs
    /\ threads = [t \in Threads |-> NewThread]
    /\ extractions = 0
    /\ kwargs = {}
    /\ vals = <<>>
    /\ nested = <<>>
    /\ assign = NoAssign
    /\ expr = NoExpr
    /\ mirror = NoMirror

\* mutant: ConfigBase.model_post_init is entered whatever the class defines
EnterPostInitBase(h) == "validating"

\* the model_post_init pydantic calls: the class's own one, whose checks come
\* before its `return super().model_post_init(context)`, else ConfigBase's
EnterPostInit(h) == IF h = "none" THEN "validating" ELSE "hook"

\* cls(): the fields take their defaults and model_post_init is entered
Construct ==
    /\ pc = "new"
    /\ pc' = EnterPostInit(hook)
    /\ UNCHANGED <<classVars, idx, result, ran, field_docs, log, call, threads, extractions, valueVars, utilVars>>

\* the business-rule checks of the class's own model_post_init, which end in
\* a ValueError or in `return super().model_post_init(context)`
RunHook ==
    /\ pc = "hook"
    /\ ran' = Append(ran, "hook")
    /\ result' = IF hook = "fail" THEN Err("BusinessRule", FALSE, "", NoAnno) ELSE NoErr
    /\ pc' = IF hook = "fail" THEN "failed" ELSE "validating"
    /\ UNCHANGED <<classVars, idx, field_docs, log, call, threads, extractions, valueVars, utilVars>>

\* mutant: a violation is recorded and the loop goes on
AfterCheckContinue(err) == "validating"

\* a raise leaves the loop and model_post_init
AfterCheck(err) == IF err # NoErr THEN "failed" ELSE "validating"

\* one iteration of the loop over model_fields (lines 197-225)
CheckField ==
    /\ pc = "validating"
    /\ idx < Len(fields)
    /\ LET o == ValidateField(fields[idx + 1], FieldNames[idx + 1])
       IN  /\ idx' = idx + 1
           /\ log' = log \o o.warns
           /\ result' = o.err
           /\ pc' = AfterCheck(o.err)
    /\ ran' = Append(ran, "field")
    /\ UNCHANGED <<classVars, field_docs, call, threads, extractions, valueVars, utilVars>>

\* the end of model_post_init (lines 227-228): AttrDocBase.__post_init__
\* reads the documentation and stores it on the instance
PostInit ==
    /\ pc = "validating"
    /\ idx = Len(fields)
    /\ LET r == GetFieldDocs(source)
       IN  /\ result' = r.err
           /\ pc' = IF r.err # NoErr THEN "failed" ELSE "done"
           /\ field_docs' = IF r.err # NoErr THEN field_docs ELSE r.docs
    /\ ran' = Append(ran, "docs")
    /\ extractions' = extractions + 1
    /\ UNCHANGED <<classVars, idx, log, call, threads, valueVars, utilVars>>

Next == Construct \/ RunHook \/ CheckField \/ PostInit

Spec == Init /\ [][Next]_vars

\* --------------------------------- several constructions of one class
\* the classes and declarations several constructions are explored with
DocClasses == {<<>>, <<IntT>>, <<AnyT>>, <<Alias("tuple", <<IntT, IntT>>)>>}

DocSources == {<<>>} \cup {<<ClassDef(ClassName, b)>> : b \in {c \in Bodies : Len(c) <= 2}}

\* a class is declared and several constructions of it are about to run
InitDoc ==
    /\ fields \in DocClasses
    /\ validate_any \in BOOLEAN
    /\ suppress_any_warning \in BOOLEAN
    /\ source \in DocSources
    /\ hook \in Hooks
    /\ pc = "idle"
    /\ idx = 0
    /\ result = NoErr
    /\ log = <<>>
    /\ call = NoCall
    /\ ran = <<>>
    /\ field_docs = EmptyDocs
    /\ threads = [t \in Threads |-> NewThread]
    /\ extractions = 0
    /\ kwargs = {}
    /\ vals = <<>>
    /\ nested = <<>>
    /\ assign = NoAssign
    /\ expr = NoExpr
    /\ mirror = NoMirror

\* the loop over model_fields from field i on
RECURSIVE CheckFieldsFrom(_, _)
CheckFieldsFrom(fs, i) ==
    IF i > Len(fs) THEN Ok
    ELSE Then(ValidateField(fs[i], FieldNames[i]), CheckFieldsFrom(fs, i + 1))

\* model_post_init up to line 225: the class's own checks, then the loop
RunChecks ==
    IF hook = "fail" THEN Raise(Err("BusinessRule", FALSE, "", NoAnno))
    ELSE CheckFieldsFrom(fields, 1)

\* construction t runs the checks of model_post_init
TValidate(t) ==
    /\ threads[t].pc = "new"
    /\ LET o == RunChecks
       IN  /\ threads' = [threads EXCEPT ![t].result = o.err,
                                         ![t].pc = IF o.err # NoErr THEN "failed" ELSE "validated"]
           /\ log' = log \o o.warns
    /\ UNCHANGED <<classVars, instVars, call, extractions, valueVars, utilVars>>

\* the constructions that returned an instance
Done == {t \in Threads : threads[t].pc = "done"}

\* construction t runs _get_field_docs (the right-hand side of line 22)
TExtract(t) ==
    /\ threads[t].pc = "validated"
    /\ LET r == GetFieldDocs(source)
       IN  threads' = [threads EXCEPT ![t].result = r.err,
                                      ![t].local = r.docs,
                                      ![t].late = (Done # {}),
                                      ![t].pc = IF r.err # NoErr THEN "failed" ELSE "extracted"]
    /\ extractions' = extractions + 1
    /\ UNCHANGED <<classVars, instVars, log, call, valueVars, utilVars>>

\* mutant: the instance keeps the class attribute field_docs = {}
AttachedNothing(local) == EmptyDocs

\* line 22: what self.field_docs is bound to
Attached(local) == local

\* construction t stores the documentation on its instance and returns it
TAttach(t) ==
    /\ threads[t].pc = "extracted"
    /\ threads' = [threads EXCEPT ![t].field_docs = Attached(threads[t].local),
                                  ![t].pc = "done"]
    /\ UNCHANGED <<classVars, instVars, log, call, extractions, valueVars, utilVars>>

Validate == \E t \in Threads : TValidate(t)

Extract == \E t \in Threads : TExtract(t)

Attach == \E t \in Threads : TAttach(t)

NextDoc == Validate \/ Extract \/ Attach

SpecDoc == InitDoc /\ [][NextDoc]_vars

\* ------------------------------------------- direct calls of the methods
CallNames == {"v", "items"}

\* an instance of a class without fields (class Dummy(ConfigBase): pass), and
\* the arguments its methods are about to be called with
InitCall ==
    /\ fields = <<>>
    /\ validate_any \in BOOLEAN
    /\ suppress_any_warning \in BOOLEAN
    /\ source = <<ClassDef(ClassName, <<>>)>>
    /\ hook = "none"
    /\ pc = "done"
    /\ idx = 0
    /\ result = NoErr
    /\ log = <<>>
    /\ ran = <<"docs">>
    /\ field_docs = EmptyDocs
    /\ threads = [t \in Threads |-> NewThread]
    /\ extractions = 1
    /\ kwargs = {}
    /\ vals = <<>>
    /\ nested = <<>>
    /\ assign = NoAssign
    /\ expr = NoExpr
    /\ mirror = NoMirror
    /\ \E a \in Annotations, n \in CallNames :
         call = [fn |-> "none", annotation |-> a, field_name |-> n, err |-> NoErr,
                 origin |-> "None", args |-> <<>>, other |-> NoAnno]

\* the call returned or raised: its outcome is recorded, its warnings logged
Called(fn, o) ==
    /\ pc = "done"
    /\ Len(log) + Len(o.warns) <= MaxLog
    /\ log' = log \o o.warns
    /\ call' = [call EXCEPT !.fn = fn, !.err = o.err, !.origin = "None",
                            !.args = <<>>, !.other = NoAnno]
    /\ UNCHANGED <<classVars, instVars, threads, extractions, valueVars, utilVars>>

\* instance._discourage_any_usage(field_name)
CallDiscourageAny ==
    Called("discourage_any_usage", DiscourageAnyUsage(call.field_name))

\* instance._validate_union_type(annotation, field_name)
CallValidateUnion ==
    /\ pc = "done"
    /\ LET u == ValidateUnionType(call.annotation, call.field_name)
       IN  call' = [call EXCEPT !.fn = "validate_union_type", !.err = u.err,
                                !.origin = u.origin, !.args = u.args, !.other = u.other]
    /\ UNCHANGED <<classVars, instVars, log, threads, extractions, valueVars, utilVars>>

\* instance._validate_list_set_type(annotation, field_name)
CallValidateListSet ==
    Called("validate_list_set_type", ValidateListSetType(call.annotation, call.field_name))

\* instance._validate_dict_type(annotation, field_name)
CallValidateDict ==
    Called("validate_dict_type", ValidateDictType(call.annotation, call.field_name))

NextCall == CallDiscourageAny \/ CallValidateUnion \/ CallValidateListSet \/ CallValidateDict

SpecCall == InitCall /\ [][NextCall]_vars

\* ------------------------------------- the values of an instance
\* pydantic's part of a construction and of a reassignment, as line 111
\* configures it (validate_assignment = True, extra = "forbid").
\* The classes it is explored with: fields with and without a nested
\* ConfigBase subclass
ValueClasses == {<<IntT>>, <<ConfigT>>, <<IntT, ConfigT>>,
                 <<ConfigT, Alias("tuple", <<IntT, IntT>>)>>}

\* the declared fields of the nested class
NestedClasses == {<<>>, <<IntT>>, <<Alias("tuple", <<IntT, IntT>>)>>, <<LiteralT>>}

\* the keys a constructor is called with
Keys == {"f", "g", "zz"}

\* the values of a field: of its type and within the class's business rules,
\* of its type but against a business rule, not of its type
ValueKinds == {"ok", "breaks_rule", "wrong_type"}

\* the values a class can meet: business rules exist only in a class with a hook
KindsOf(h) == IF h = "none" THEN {"ok", "wrong_type"} ELSE ValueKinds

\* the names of the declared fields
DeclaredNames == {FieldNames[j] : j \in 1..Len(fields)}

\* the hook of a class with business rules raises iff a value breaks one
HookOutcome(h, vs) ==
    IF h = "none" THEN "none"
    ELSE IF \E j \in 1..Len(vs) : vs[j] = "breaks_rule" THEN "fail" ELSE "pass"

\* a constructor call is about to be validated
InitValues ==
    /\ fields \in ValueClasses
    /\ validate_any = TRUE
    /\ suppress_any_warning = FALSE
    /\ source = <<ClassDef(ClassName, <<>>)>>
    /\ kwargs \in SUBSET Keys
    /\ nested \in NestedClasses
    /\ \E h \in {"none", "has"} :
          /\ vals \in [1..Len(fields) -> KindsOf(h)]
          /\ hook = HookOutcome(h, vals)
    /\ \A j \in 1..Len(fields) : FieldNames[j] \notin kwargs => vals[j] = "ok"
    /\ pc = "init"
    /\ idx = 0
    /\ result = NoErr
    /\ log = <<>>
    /\ call = NoCall
    /\ ran = <<>>
    /\ field_docs = EmptyDocs
    /\ threads = [t \in Threads |-> NewThread]
    /\ extractions = 0
    /\ assign = NoAssign
    /\ expr = NoExpr
    /\ mirror = NoMirror

\* mutant: extra = "ignore"
UnknownKeysIgnored(keys, names) == {}

\* extra = "forbid": the supplied keys that are no declared field
UnknownKeys(keys, names) == keys \ names

\* a field typed as a ConfigBase subclass gets a value of that class: the
\* nested instance is constructed while the parent's fields are validated
NestedBuilt ==
    \E j \in 1..Len(fields) : fields[j] = ConfigT /\ vals[j] # "wrong_type"

\* mutant: the nested class is not validated when its instance is made
NestedOutcomeUnchecked(n) == Ok

\* the construction of the nested instance runs the loop of model_post_init
\* over the nested class's fields
NestedOutcome(n) == CheckFieldsFrom(n, 1)

\* BaseModel.__init__: the supplied values are validated field by field (a
\* nested instance is constructed on the way, and its TypeError propagates),
\* then undeclared keys are reported; model_post_init is entered afterwards
ValidateInput ==
    /\ pc = "init"
    /\ LET o    == IF NestedBuilt THEN NestedOutcome(nested) ELSE Ok
           bad  == \/ UnknownKeys(kwargs, DeclaredNames) # {}
                   \/ \E j \in 1..Len(fields) : vals[j] = "wrong_type"
       IN  /\ ran' = IF NestedBuilt THEN <<"nested">> ELSE <<>>
           /\ log' = log \o o.warns
           /\ result' = IF o.err # NoErr THEN o.err
                        ELSE IF bad THEN Err("ValidationError", FALSE, "", NoAnno)
                        ELSE NoErr
           /\ pc' = IF o.err # NoErr \/ bad THEN "failed" ELSE "new"
    /\ UNCHANGED <<classVars, idx, field_docs, call, threads, extractions, valueVars, utilVars>>

\* validate_assignment = True: instance.<field j> = v is validated against
\* the field's type; model_post_init is not run again
Reassign ==
    /\ pc = "done"
    /\ \E j \in 1..Len(fields), v \in KindsOf(hook) :
          IF v = "wrong_type"
          THEN /\ assign' = [field |-> j, value |-> v,
                             err |-> Err("ValidationError", FALSE, FieldNames[j], NoAnno)]
               /\ vals' = vals
          ELSE /\ assign' = [field |-> j, value |-> v, err |-> NoErr]
               /\ vals' = [vals EXCEPT ![j] = v]
    /\ UNCHANGED <<classVars, instVars, log, call, threads, extractions, kwargs, nested, utilVars>>

NextValues == ValidateInput \/ Construct \/ RunHook \/ CheckField \/ PostInit \/ Reassign

SpecValues == InitValues /\ [][NextValues]_vars

\* ------------------------------- get_expression_config_for_chat
\* the (use_expression, enable_learning, enable_jargon_learning) of the items
FlagTriples == {<<TRUE, TRUE, FALSE>>, <<FALSE, TRUE, TRUE>>, <<FALSE, FALSE, FALSE>>}

\* official_configs.LearningItem: its declared fields
LearningItem(platform, id, rule_type, flags) ==
    [platform |-> platform, id |-> id, rule_type |-> rule_type,
     use_expression |-> flags[1], enable_learning |-> flags[2],
     enable_jargon_learning |-> flags[3]]

LearningItems ==
    {LearningItem(p, i, r, f) : p \in {"", "qq"}, i \in {"", "1"},
                                r \in {"group", "private"}, f \in FlagTriples}

LearningLists == UNION {[1..n -> LearningItems] : n \in 0..MaxItems}

\* the stream id of a platform, an id and a chat kind: a hash, modelled as
\* the triple it is computed from
StreamId(platform, id_str, is_group) ==
    <<platform, id_str, IF is_group THEN "group" ELSE "private">>

\* None, and the empty string
NoneId == <<"None">>

EmptyId == <<>>

\* the chat_stream_id arguments: None, the empty string, stream ids
ChatStreamIds ==
    {NoneId, EmptyId} \cup {StreamId("qq", i, g) : i \in {"1", "2"}, g \in BOOLEAN}

\* config_item.<name>: the value of a declared field, AttributeError otherwise
GetAttr(item, name) ==
    IF name \in DOMAIN item
    THEN [err |-> NoErr, value |-> item[name]]
    ELSE [err |-> Err("AttributeError", FALSE, name, NoAnno), value |-> ""]

\* lines 27 and 40: not config_item.platform and not config_item.item_id
IsGlobalItem(item) ==
    IF item.platform # "" THEN [err |-> NoErr, value |-> FALSE]
    ELSE LET a == GetAttr(item, "item_id")
         IN  [err |-> a.err, value |-> a.err = NoErr /\ a.value = ""]

\* TempMethodsExpression._get_stream_id: None when the chat manager raises
GetStreamId(platform, id_str, is_group, fails) ==
    IF fails THEN NoneId ELSE StreamId(platform, id_str, is_group)

\* the returned triple of an item (lines 38 and 41)
ItemFlags(item) ==
    <<item.use_expression, item.enable_learning, item.enable_jargon_learning>>

Returned(value) == [err |-> NoErr, value |-> value]

Raised(e) == [err |-> e, value |-> <<>>]

\* lines 26-38: the loop over the chat-specific items, from item i on; the
\* empty value says that the loop ended without a return
RECURSIVE ChatLoop(_, _, _, _)
ChatLoop(ls, i, chat_stream_id, fails) ==
    IF i > Len(ls) THEN Returned(<<>>)
    ELSE LET g == IsGlobalItem(ls[i])
             a == GetAttr(ls[i], "item_id")
         IN  IF g.err # NoErr THEN Raised(g.err)
             ELSE IF g.value THEN ChatLoop(ls, i + 1, chat_stream_id, fails)
             ELSE IF a.err # NoErr THEN Raised(a.err)
             ELSE LET stream_id == GetStreamId(ls[i].platform, a.value,
                                               ls[i].rule_type = "group", fails)
                  IN  IF stream_id = NoneId THEN ChatLoop(ls, i + 1, chat_stream_id, fails)
                      ELSE IF stream_id = chat_stream_id
                      THEN ChatLoop(ls, i + 1, chat_stream_id, fails)
                      ELSE Returned(ItemFlags(ls[i]))

\* lines 39-43: the loop over the global items, from item i on
RECURSIVE GlobalLoop(_, _)
GlobalLoop(ls, i) ==
    IF i > Len(ls) THEN Returned(<<TRUE, TRUE, TRUE>>)
    ELSE LET g == IsGlobalItem(ls[i])
         IN  IF g.err # NoErr THEN Raised(g.err)
             ELSE IF g.value THEN Returned(ItemFlags(ls[i]))
             ELSE GlobalLoop(ls, i + 1)

\* TempMethodsExpression.get_expression_config_for_chat
GetExpressionConfigForChat(learning_list, chat_stream_id, fails) ==
    IF learning_list = <<>> THEN Returned(<<TRUE, TRUE, TRUE>>)
    ELSE LET first == IF chat_stream_id \notin {NoneId, EmptyId}
                      THEN ChatLoop(learning_list, 1, chat_stream_id, fails)
                      ELSE Returned(<<>>)
         IN  IF first.err # NoErr \/ first.value # <<>> THEN first
             ELSE GlobalLoop(learning_list, 1)

\* global_config.expression.learning_list is set and the function is about
\* to be called with a chat_stream_id
InitExpr ==
    /\ fields = <<>>
    /\ validate_any = TRUE
    /\ suppress_any_warning = FALSE
    /\ source = <<>>
    /\ hook = "none"
    /\ pc = "idle"
    /\ idx = 0
    /\ result = NoErr
    /\ log = <<>>
    /\ call = NoCall
    /\ ran = <<>>
    /\ field_docs = EmptyDocs
    /\ threads = [t \in Threads |-> NewThread]
    /\ extractions = 0
    /\ kwargs = {}
    /\ vals = <<>>
    /\ nested = <<>>
    /\ assign = NoAssign
    /\ \E ls \in LearningLists, c \in ChatStreamIds, f \in BOOLEAN :
          expr = [learning_list |-> ls, chat_stream_id |-> c, hash_fails |-> f,
                  pc |-> "called", err |-> NoErr, ret |-> <<>>]
    /\ mirror = NoMirror

\* the call returns a triple or raises
CallGetExpressionConfig ==
    /\ expr.pc = "called"
    /\ LET r == GetExpressionConfigForChat(expr.learning_list, expr.chat_stream_id,
                                           expr.hash_fails)
       IN  expr' = [expr EXCEPT !.pc = IF r.err # NoErr THEN "raised" ELSE "returned",
                                !.err = r.err, !.ret = r.value]
    /\ UNCHANGED <<classVars, instVars, log, call, threads, extractions, valueVars, mirror>>

NextExpr == CallGetExpressionConfig

SpecExpr == InitExpr /\ [][NextExpr]_vars

\* ------------------------------------ MirrorManager.get_fastest_mirror
\* a MirrorManager has been created
InitMirror ==
    /\ fields = <<>>
    /\ validate_any = TRUE
    /\ suppress_any_warning = FALSE
    /\ source = <<>>
    /\ hook = "none"
    /\ pc = "idle"
    /\ idx = 0
    /\ result = NoErr
    /\ log = <<>>
    /\ call = NoCall
    /\ ran = <<>>
    /\ field_docs = EmptyDocs
    /\ threads = [t \in Threads |-> NewThread]
    /\ extractions = 0
    /\ kwargs = {}
    /\ vals = <<>>
    /\ nested = <<>>
    /\ assign = NoAssign
    /\ expr = NoExpr
    /\ mirror = NoMirror

\* lines 56-82: a call returns the cached mirror, or starts a speed test and
\* awaits its results
MirrorCall(t) ==
    /\ mirror.callers[t].pc = "idle"
    /\ mirror' =
          IF mirror.fastest_mirror # "None"
          THEN [mirror EXCEPT !.callers[t].pc = "returned",
                              !.callers[t].ret = mirror.fastest_mirror,
                              !.callers[t].late = mirror.completed]
          ELSE [mirror EXCEPT !.callers[t].pc = "testing",
                              !.callers[t].late = mirror.completed,
                              !.tests = @ + 1]
    /\ UNCHANGED <<classVars, instVars, log, call, threads, extractions, valueVars, expr>>

\* lines 83-95: the results are in; the best valid mirror is cached and
\* returned, or the default mirror is returned
MirrorTested(t) ==
    /\ mirror.callers[t].pc = "testing"
    /\ \E lat \in Latencies :
          LET best == BestMirror(lat)
              ret  == IF best # "None" THEN best ELSE "aliyun"
          IN  mirror' = [mirror EXCEPT
                            !.fastest_mirror = IF best # "None" THEN best ELSE @,
                            !.callers[t].pc = "returned",
                            !.callers[t].ret = ret,
                            !.completed = TRUE,
                            !.first = IF mirror.completed THEN @ ELSE ret]
    /\ UNCHANGED <<classVars, instVars, log, call, threads, extractions, valueVars, expr>>

StartCall == \E t \in Threads : MirrorCall(t)

FinishTest == \E t \in Threads : MirrorTested(t)

NextMirror == StartCall \/ FinishTest

SpecMirror == InitMirror /\ [][NextMirror]_vars

\* ------------------------------------------------------------ claims
\* field j has been examined by the loop of model_post_init
Examined(j) == j \in 1..idx

\* the construction was aborted by the check of field j
FailedAt(j) ==
    pc = "failed" /\ idx = j /\ result.kind \notin {"BusinessRule", "ClassNotFound", "DisallowedMethod"}

\* field j aborted the construction with a violation of kind k that names it
RejectedWith(j, k) ==
    FailedAt(j) /\ result.kind = k /\ result.field = FieldNames[j]

\* a two-armed union with one arm None
IsOptional(a) ==
    IsUnion(a) /\ Len(a.args) = 2 /\ \E i \in 1..2 : a.args[i] = NoneT

\* the annotation with one Optional taken off
StripOptional(a) ==
    IF IsOptional(a) THEN (IF a.args[2] = NoneT THEN a.args[1] ELSE a.args[2]) ELSE a

\* Any as the bare annotation, the element of a List/Set or the value of a Dict
AnyShaped(a) ==
    \/ a = AnyT
    \/ a.gen /\ a.base \in {"list", "set"} /\ a.args = <<AnyT>>
    \/ a.gen /\ a.base = "dict" /\ Len(a.args) = 2 /\ a.args[2] = AnyT

\* C1: with the strictness flag at its default, a field annotated Any (bare, as
\* the element of a List/Set or as the value of a Dict) aborts the construction
\* when it is examined, with an Any-usage violation naming that field, and no
\* instance of a class declaring such a field is ever produced.
C1_AnyStrictFatal ==
    validate_any =>
        /\ \A j \in 1..Len(fields) :
             (Examined(j) /\ AnyShaped(fields[j])) => RejectedWith(j, "AnyUsage")
        /\ pc = "done" => \A j \in 1..Len(fields) : ~AnyShaped(fields[j])

C1_Witness ==
    /\ validate_any
    /\ fields = <<Alias("dict", <<StrT, AnyT>>)>>
    /\ RejectedWith(1, "AnyUsage")

\* C2: with the strictness flag lowered and the silence flag not set, a field
\* annotated Any does not abort the construction, and once it is examined a
\* warning with its name is in the log.
C2_AnyLoweredWarns ==
    (~validate_any /\ ~suppress_any_warning) =>
        \A j \in 1..Len(fields) :
            (Examined(j) /\ AnyShaped(fields[j])) =>
                /\ ~FailedAt(j)
                /\ \E k \in 1..Len(log) : log[k] = FieldNames[j]

C2_Witness ==
    /\ ~validate_any
    /\ ~suppress_any_warning
    /\ fields = <<AnyT>>
    /\ pc = "done"
    /\ log = <<"f">>

\* C3: with the strictness flag lowered and the silence flag set, the Any check
\* logs no warning and raises nothing.
C3_SilencedAnyLogsNothing ==
    (~validate_any /\ suppress_any_warning) =>
        /\ log = <<>>
        /\ result.kind # "AnyUsage"

\* a Tuple, parameterized or bare, after one Optional is taken off
TupleShaped(a) == StripOptional(a).base = "tuple"

\* C4: a field whose annotation, after unwrapping one Optional, is a Tuple
\* (parameterized or bare) aborts the construction with a Tuple violation
\* naming it, whatever the strictness and silence flags are.
C4_TupleAlwaysFatal ==
    \A j \in 1..Len(fields) :
        (Examined(j) /\ TupleShaped(fields[j])) => RejectedWith(j, "Tuple")

C4_Witness ==
    /\ ~validate_any
    /\ suppress_any_warning
    /\ fields = <<Optional(Leaf("tuple"))>>
    /\ RejectedWith(1, "Tuple")

\* the union written the other way: Union[X, Y] for X | Y and back
OtherSyntax(a) ==
    [a EXCEPT !.base = IF @ = "Union" THEN "UnionType" ELSE "Union"]

\* C5: _validate_union_type raises a Union violation for every union that is
\* not a two-armed union with one arm None (no None arm, three or more arms,
\* Optional of a union, which Python flattens to such a union); X | Y is
\* treated as Union[X, Y]; for a two-armed union with one arm None it returns
\* the origin and arguments of the other arm, and that arm.
C5_UnionRule ==
    call.fn = "validate_union_type" =>
        LET a == call.annotation
            t == StripOptional(a)
            o == ValidateUnionType(OtherSyntax(a), call.field_name)
        IN  /\ (IsUnion(a) /\ ~IsOptional(a)) =>
                    call.err.kind = "Union" /\ call.err.field = call.field_name
            /\ IsOptional(a) =>
                    /\ call.err = NoErr
                    /\ call.other = t
                    /\ call.origin = t.base
                    /\ call.args = t.args
            /\ IsUnion(a) =>
                    /\ call.err = o.err
                    /\ call.origin = o.origin
                    /\ call.args = o.args
                    /\ call.other = o.other

C5_Witness ==
    /\ call.fn = "validate_union_type"
    /\ call.annotation = MkUnion("Union", <<MkUnion("UnionType", <<IntT, StrT>>), NoneT>>)
    /\ Len(call.annotation.args) = 3
    /\ call.err.kind = "Union"

\* how the check of an examined field ended: the kind of its violation, or ok
OutcomeKind(j) == IF FailedAt(j) THEN result.kind ELSE "ok"

\* C6: a field annotated Optional[T], T not a union, is accepted if and only
\* if a field annotated T is, and is rejected with the same kind of violation,
\* under every setting of the strictness flag.
C6_OptionalAsInner ==
    \A j \in 1..Len(fields) :
        (Examined(j) /\ IsOptional(fields[j])) =>
            OutcomeKind(j) = ValidateField(StripOptional(fields[j]), FieldNames[j]).err.kind

C6_Witness ==
    /\ fields = <<Optional(Alias("list", <<Alias("list", <<IntT>>)>>))>>
    /\ RejectedWith(1, "NestedGeneric")
    /\ ValidateField(Alias("list", <<Alias("list", <<IntT>>)>>), "f").err.kind = "NestedGeneric"

\* a List/Set without exactly one parameter, a Dict without exactly two
ArityViolating(t) ==
    \/ t.base \in {"list", "set"} /\ Len(get_args(t)) # 1
    \/ t.base = "dict" /\ Len(get_args(t)) # 2

\* C7: a field that is a List or Set without exactly one type parameter, or a
\* Dict without exactly two (the bare containers included), directly or under
\* one Optional, aborts the construction with an Arity violation naming it.
C7_ArityFatal ==
    \A j \in 1..Len(fields) :
        (Examined(j) /\ ArityViolating(StripOptional(fields[j]))) => RejectedWith(j, "Arity")

C7_Witness ==
    /\ fields = <<Alias("dict", <<StrT, IntT, IntT>>)>>
    /\ RejectedWith(1, "Arity")

\* a generic shape: a List, Set or Dict alias, or a union
GenericShape(e) == e.gen /\ e.base \in {"list", "set", "dict"} \cup UnionOrigins

\* a List/Set of one parameter whose element is a generic shape
NestedElem(t) ==
    t.gen /\ t.base \in {"list", "set"} /\ Len(t.args) = 1 /\ GenericShape(t.args[1])

\* C8: a field that is a List or Set whose single element is itself a generic
\* shape (a List, Set, Dict or union) aborts the construction with a
\* NestedGeneric violation naming it, as the top-level annotation and under
\* one Optional.
C8_NestedGenericFatal ==
    \A j \in 1..Len(fields) :
        (Examined(j) /\ NestedElem(StripOptional(fields[j]))) =>
            RejectedWith(j, "NestedGeneric")

C8_Witness ==
    /\ fields = <<Optional(Alias("list", <<MkUnion("UnionType", <<IntT, NoneT>>)>>))>>
    /\ RejectedWith(1, "NestedGeneric")

\* C9: _validate_list_set_type accepts a ConfigBase subclass as the element of
\* a List and rejects it as the element of a Set as unhashable.
C9_SetOfModelsRejected ==
    call.fn = "validate_list_set_type" =>
        /\ call.annotation = Alias("list", <<ConfigT>>) => call.err = NoErr
        /\ call.annotation = Alias("set", <<ConfigT>>) =>
                call.err.kind = "UnhashableSetElement"

\* a List/Set alias
ListSetShaped(v) == v.gen /\ v.base \in {"list", "set"}

DictOfOptionalAtom(a) ==
    /\ a.gen /\ a.base = "dict" /\ Len(a.args) = 2
    /\ IsOptional(a.args[2])
    /\ StripOptional(a.args[2]) \in AtomTypes

\* C11: a field that is a Dict whose value is Optional[T], T atomic (such as
\* Dict[str, Optional[int]]) does not abort the construction.
C11_DictOptionalValueAccepted ==
    \A j \in 1..Len(fields) :
        (Examined(j) /\ DictOfOptionalAtom(fields[j])) => ~FailedAt(j)

\* the annotations accepted without further checks, as the claim lists them
AcceptedAsIs(u) == u \in AtomTypes \cup {ConfigT}

\* C12 as stated: after Optional is taken off, a field is accepted without
\* further checks when it is atomic or a ConfigBase subclass, and every other
\* annotation whose origin is not List, Set or Dict aborts the construction
\* with an UnsupportedGeneric violation.
C12_AsStated ==
    \A j \in 1..Len(fields) :
        LET u == StripOptional(fields[j])
        IN  Examined(j) =>
                /\ AcceptedAsIs(u) => ~FailedAt(j)
                /\ (~AcceptedAsIs(u) /\ u.base \notin ContainerOrigins)
                        => RejectedWith(j, "UnsupportedGeneric")

\* C12: after Optional is taken off, a field that is atomic or a ConfigBase
\* subclass is accepted and nothing is logged for it; an annotation that is
\* not one of these, not Any, not a Tuple, not a union, and whose origin is
\* not List, Set or Dict (a plain model class, a Literal) aborts the
\* construction with an UnsupportedGeneric violation naming it.
C12_UnsupportedGenericRule ==
    \A j \in 1..Len(fields) :
        LET u == StripOptional(fields[j])
        IN  Examined(j) =>
                /\ AcceptedAsIs(u) =>
                        /\ ~FailedAt(j)
                        /\ \A k \in 1..Len(log) : log[k] # FieldNames[j]
                /\ (/\ ~AcceptedAsIs(u) /\ u # AnyT /\ ~IsUnion(u)
                    /\ u.base \notin ContainerOrigins \cup TupleOrigins)
                        => RejectedWith(j, "UnsupportedGeneric")

C12_Witness ==
    /\ fields = <<Optional(PlainT)>>
    /\ RejectedWith(1, "UnsupportedGeneric")

\* C13: the fields are checked in declaration order and the first violating
\* one aborts the construction: an examined field that violates the grammar
\* is the one the construction failed at, with that field's violation; the
\* fields before it passed; every warning logged is for an examined field;
\* and the documentation was not read, so no instance exists.
C13_FirstViolationAborts ==
    /\ \A j \in 1..Len(fields) :
            LET o == ValidateField(fields[j], FieldNames[j])
            IN  (Examined(j) /\ o.err # NoErr) =>
                    /\ FailedAt(j) /\ result = o.err
                    /\ \A i \in 1..(j - 1) :
                            ValidateField(fields[i], FieldNames[i]).err = NoErr
                    /\ \A i \in 1..Len(ran) : ran[i] # "docs"
                    /\ field_docs = EmptyDocs
    /\ \A k \in 1..Len(log) : \E j \in 1..idx : log[k] = FieldNames[j]

C13_Witness ==
    /\ fields = <<Alias("tuple", <<IntT, IntT>>), AnyT>>
    /\ validate_any
    /\ RejectedWith(1, "Tuple")
    /\ log = <<>>

\* the violation that aborted the construction at a field
GrammarFailure == \E j \in 1..Len(fields) : FailedAt(j)

\* C14 as stated: every grammar violation carries the class name, the field
\* name and a rendering of the offending annotation.
C14_AsStated ==
    \A j \in 1..Len(fields) :
        FailedAt(j) =>
            /\ result.cls
            /\ result.field = FieldNames[j]
            /\ result.anno # NoAnno

\* the annotation and the parts of it a violation may render
Renderable(a) ==
    {a, StripOptional(a)}
    \cup (IF StripOptional(a).gen /\ Len(StripOptional(a).args) = 2
          THEN {StripOptional(StripOptional(a).args[2])} ELSE {})

\* C14: every grammar violation carries the field name; the Arity,
\* NestedGeneric and UnsupportedGeneric violations carry the class name and
\* a rendering of the annotation too; the Tuple and Union violations carry
\* the class name and no annotation; the Any violation carries neither.
C14_ViolationCarries ==
    \A j \in 1..Len(fields) :
        FailedAt(j) =>
            /\ result.field = FieldNames[j]
            /\ result.kind \in {"Arity", "NestedGeneric", "UnsupportedGeneric"}
                    => result.cls /\ result.anno \in Renderable(fields[j])
            /\ result.kind \in {"Tuple", "Union"}
                    => result.cls /\ result.anno = NoAnno
            /\ result.kind = "AnyUsage"
                    => ~result.cls /\ result.anno = NoAnno

C14_Witness ==
    /\ fields = <<Alias("list", <<AnyT>>)>>
    /\ FailedAt(1)
    /\ result = Err("AnyUsage", FALSE, "f", NoAnno)

\* the steps of ran are in the order that rank gives
InOrder(rank) ==
    \A i \in 1..Len(ran) : \A k \in i..Len(ran) : rank[ran[i]] <= rank[ran[k]]

\* some declared field violates the grammar
SomeFieldViolates ==
    \E j \in 1..Len(fields) : ValidateField(fields[j], FieldNames[j]).err # NoErr

\* the documentation has not been read
NoDocsRead == extractions = 0 /\ \A i \in 1..Len(ran) : ran[i] # "docs"

\* C15 as stated: in a class with its own hook the fields are checked first,
\* then the hook's business rules, then the documentation is read; a class
\* with a grammar violation and a failing business rule reports the grammar
\* violation; the documentation is not read when validation or the hook failed.
C15_AsStated ==
    hook # "none" =>
        /\ InOrder([field |-> 1, hook |-> 2, docs |-> 3])
        /\ (pc = "failed" /\ hook = "fail" /\ SomeFieldViolates) => GrammarFailure
        /\ (GrammarFailure \/ result.kind = "BusinessRule") => NoDocsRead

\* C15: in a class with its own hook the hook's business rules are checked
\* first, then every declared field, then the documentation is read; a class
\* with a grammar violation and a failing business rule reports the business
\* rule, before any field is examined; the documentation is not read when
\* the hook or the validation failed.
C15_HookThenFieldsThenDocs ==
    hook # "none" =>
        /\ InOrder([hook |-> 1, field |-> 2, docs |-> 3])
        /\ pc \in {"validating", "done", "failed"} => (ran # <<>> /\ ran[1] = "hook")
        /\ pc = "done" =>
                ran = <<"hook">> \o [i \in 1..Len(fields) |-> "field"] \o <<"docs">>
        /\ (pc = "failed" /\ hook = "fail") =>
                result.kind = "BusinessRule" /\ idx = 0 /\ log = <<>>
        /\ (GrammarFailure \/ result.kind = "BusinessRule") => NoDocsRead

C15_Witness ==
    /\ hook = "fail"
    /\ fields = <<Alias("tuple", <<IntT, IntT>>)>>
    /\ pc = "failed"
    /\ result.kind = "BusinessRule"
    /\ ran = <<"hook">>

\* C16: over the constructions of one class the documentation is extracted
\* for the first successful construction only: a construction that reaches
\* the documentation step when an instance of the class exists already does
\* not read and parse the declaration again.
C16_ExtractedOnce ==
    \A t \in Threads : ~threads[t].late

\* C17: two constructions of the same class that have ended, in whatever
\* interleaving, ended alike (both returned an instance or both raised the
\* same exception), and every instance exposes the whole DocMap of the class
\* declaration, so the DocMaps of two instances are identical.
C17_SameOutcomeSameDocs ==
    /\ \A t \in Threads : \A u \in Threads :
            (threads[t].pc \in {"done", "failed"} /\ threads[u].pc \in {"done", "failed"}) =>
                /\ threads[t].pc = threads[u].pc
                /\ threads[t].result = threads[u].result
                /\ threads[t].field_docs = threads[u].field_docs
    /\ \A t \in Done : threads[t].field_docs = GetFieldDocs(source).docs

C17_Witness ==
    /\ Done = Threads
    /\ \A t \in Threads : threads[t].field_docs = [n \in {"f"} |-> <<"a">>]
    /\ source = <<ClassDef(ClassName, <<AnnAssign("f"), ExprStr(<<"a">>)>>)>>

\* the documentation step has run in this construction
DocsRan == \E i \in 1..Len(ran) : ran[i] = "docs"

\* the body of the class declaration the documentation is read from
ClassBody == FindClassNode(source).node.body

\* the field names that a string literal directly follows in the body
Documented(body) ==
    {body[i].name : i \in {k \in 1..(Len(body) - 1) :
                              body[k].kind = "AnnAssign" /\ body[k + 1].kind = "ExprStr"}}

\* C18: the DocMap of an instance has an entry for a name exactly when the
\* class body has an annotated declaration of that simple name directly
\* followed by a string-literal statement, and the entry is the processed
\* text of such a string; a field that ends the body or is followed by
\* another statement, and a string that follows no such field, add nothing.
C18_DocEntryIffFieldThenString ==
    pc = "done" =>
        /\ DOMAIN field_docs = Documented(ClassBody)
        /\ \A n \in DOMAIN field_docs :
                \E i \in 1..(Len(ClassBody) - 1) :
                    /\ ClassBody[i] = AnnAssign(n)
                    /\ ClassBody[i + 1].kind = "ExprStr"
                    /\ field_docs[n] = ProcessDoc(ClassBody[i + 1].text)

C18_Witness ==
    /\ pc = "done"
    /\ source = <<ClassDef(ClassName, <<AnnAssign("g"), AnnAssign("f"), ExprStr(<<"a">>)>>)>>
    /\ field_docs = [n \in {"f"} |-> <<"a">>]

\* a function definition of any kind that is not the hook
OtherCallable(item) ==
    item.kind \in {"FunctionDef", "AsyncFunctionDef"} /\ item.name # "model_post_init"

\* C19: when the class body holds a function definition other than
\* model_post_init, at any position and of any kind (def or async def), the
\* documentation step fails with DisallowedMethod, the instance gets no
\* DocMap and the construction fails.
C19_AnyMethodFails ==
    (DocsRan /\ Matches(source) # {}
             /\ \E i \in 1..Len(ClassBody) : OtherCallable(ClassBody[i])) =>
        /\ pc = "failed"
        /\ result.kind = "DisallowedMethod"
        /\ field_docs = EmptyDocs

\* C20: when the source unit holds no class declaration of the class's name,
\* the documentation step fails with ClassNotFound and the construction
\* fails although every declared field had passed the validation.
C20_ClassNotFoundAborts ==
    (DocsRan /\ Matches(source) = {}) =>
        /\ pc = "failed"
        /\ result.kind = "ClassNotFound"
        /\ idx = Len(fields)
        /\ \A j \in 1..Len(fields) : ValidateField(fields[j], FieldNames[j]).err = NoErr
        /\ field_docs = EmptyDocs

C20_Witness ==
    /\ source = <<ClassDef("Other", <<AnnAssign("f")>>)>>
    /\ fields = <<IntT>>
    /\ pc = "failed"
    /\ result.kind = "ClassNotFound"

\* field j was examined and did not abort the construction
Accepted(j) == Examined(j) /\ ~FailedAt(j)

\* an element or value type the claim allows
AllowedElem(e) == e \in AtomTypes \cup {ConfigT} \/ (e = AnyT /\ ~validate_any)

\* a Tuple, bare or parameterized, at some position of the annotation
RECURSIVE ContainsTuple(_)
ContainsTuple(a) ==
    a.base = "tuple" \/ \E i \in 1..Len(a.args) : ContainsTuple(a.args[i])

\* C24: for every accepted field each List/Set element type and each Dict
\* value type, directly or through one List/Set level, is atomic or a
\* ConfigBase subclass (or Any with the strictness flag lowered), and the
\* annotation holds no Tuple at any position.
C24_AcceptedShapesAtomic ==
    \A j \in 1..Len(fields) :
        LET u == StripOptional(fields[j])
        IN  Accepted(j) =>
                /\ ListSetShaped(u) => \A i \in 1..Len(u.args) : AllowedElem(u.args[i])
                /\ (u.gen /\ u.base = "dict" /\ Len(u.args) = 2) =>
                        \/ AllowedElem(u.args[2])
                        \/ /\ ListSetShaped(u.args[2])
                           /\ \A i \in 1..Len(u.args[2].args) : AllowedElem(u.args[2].args[i])
                /\ ~ContainsTuple(fields[j])

\* the key types a Dict annotation is compared under
KeyShapes == {StrT, IntT, AnyT, Leaf("dict"), Alias("list", <<IntT>>),
              Alias("tuple", <<IntT, IntT>>), MkUnion("Union", <<IntT, StrT>>),
              Optional(IntT)}

\* the Dict annotation with another key type
WithKey(a, k) == [a EXCEPT !.args = <<k, a.args[2]>>]

\* the warnings logged for field j
WarningsFor(j) == SelectSeq(log, LAMBDA n : n = FieldNames[j])

StrippedLines(s) == [i \in 1..Len(SplitLines(s)) |-> Strip(SplitLines(s)[i])]

\* the positions of the lines that are not blank
NonBlank(ls) == {i \in 1..Len(ls) : ls[i] # <<>>}

Min(S) == CHOOSE i \in S : \A k \in S : i <= k

Max(S) == CHOOSE i \in S : \A k \in S : i >= k

\* the stripped lines of a text from its first to its last non-blank line
Trimmed(ls) ==
    IF NonBlank(ls) = {} THEN <<>> ELSE SubSeq(ls, Min(NonBlank(ls)), Max(NonBlank(ls)))

\* no line begins or ends with whitespace; the first and last are not blank
Normalized(s) ==
    LET ls == SplitLines(s)
    IN  /\ \A i \in 1..Len(ls) :
                ls[i] # <<>> => (ls[i][1] \notin Whitespace /\ ls[i][Len(ls[i])] \notin Whitespace)
        /\ ls # <<>> => (ls[1] # <<>> /\ ls[Len(ls)] # <<>>)
        /\ (s # <<>>) => (s[Len(s)] # "\n")

\* the string statement that documents name n in a body, if the DocMap has n
DocTextOf(body, n) ==
    LET at == {i \in 1..(Len(body) - 1) : body[i] = AnnAssign(n) /\ body[i + 1].kind = "ExprStr"}
    IN  body[Max(at) + 1].text

\* C26: every documentation string stored in a DocMap is normalized: none of
\* its lines begins or ends with whitespace, its first and last lines are not
\* blank, it is the stripped lines of the source string from the first to the
\* last non-blank one (interior blank lines kept), and processing it again
\* returns it unchanged.
C26_StoredDocNormalized ==
    pc = "done" =>
        \A n \in DOMAIN field_docs :
            /\ Normalized(field_docs[n])
            /\ SplitLines(field_docs[n]) = Trimmed(StrippedLines(DocTextOf(ClassBody, n)))
            /\ ProcessDoc(field_docs[n]) = field_docs[n]

C26_Witness ==
    /\ pc = "done"
    /\ source = <<ClassDef(ClassName, <<AnnAssign("f"), ExprStr(<<" ", "a", "\n", "\n", "a">>)>>)>>
    /\ field_docs = [n \in {"f"} |-> <<"a", "\n", "\n", "a">>]

\* the positions of the class's own declaration in the source unit
OwnNodes == {i \in 1..Len(source) : source[i].own}

\* C27: the DocMap is built from the body of the class's own declaration:
\* whatever other class declarations the source unit holds, of another name
\* (a base class) or of the same name, the documentation step ends as the
\* extraction from the own declaration's body does.
C27_DocsFromOwnDeclaration ==
    (DocsRan /\ OwnNodes # {}) =>
        \A i \in OwnNodes :
            LET r == ExtractFieldDocs(source[i])
            IN  /\ pc = "done" => (r.err = NoErr /\ field_docs = r.docs)
                /\ pc = "failed" => result = r.err

\* the annotations the classes of official_configs.py and model_configs.py
\* declare: str, int, float, bool, list[str], set[str], list[<ConfigBase
\* subclass>], Optional[<ConfigBase subclass>], <ConfigBase subclass>,
\* float | None, int | None and Literal[...]
AppAnnotations ==
    {StrT, IntT, Leaf("float"), Leaf("bool"), ConfigT, LiteralT,
     Alias("list", <<StrT>>), Alias("set", <<StrT>>), Alias("list", <<ConfigT>>),
     Optional(ConfigT), MkUnion("UnionType", <<Leaf("float"), NoneT>>),
     MkUnion("UnionType", <<IntT, NoneT>>)}

\* ModelInfo.extra_params: dict[str, Any], in a class that lowers _validate_any
ExtraParamsT == Alias("dict", <<StrT, AnyT>>)

\* C28: every annotation the application's configuration classes declare
\* (the Literal[...] fields included, and dict[str, Any] in the class that
\* lowers the strictness flag) is accepted by the loop of model_post_init.
C28_AppAnnotationsAccepted ==
    \A j \in 1..Len(fields) :
        (/\ Examined(j)
         /\ \/ fields[j] \in AppAnnotations
            \/ fields[j] = ExtraParamsT /\ ~validate_any) => ~FailedAt(j)

\* the stream id the claim derives for an item, from its declared fields
DerivedStreamId(item) == StreamId(item.platform, item.id, item.rule_type = "group")

\* an item for every chat: empty platform and id
GlobalItem(item) == item.platform = "" /\ item.id = ""

\* the positions of the chat-specific items whose stream id is c
MatchingItems(ls, c) ==
    {i \in 1..Len(ls) : ~GlobalItem(ls[i]) /\ DerivedStreamId(ls[i]) = c}

GlobalItems(ls) == {i \in 1..Len(ls) : GlobalItem(ls[i])}

\* C29: get_expression_config_for_chat returns the flags of the item whose
\* derived stream id equals chat_stream_id; without such an item the flags of
\* the global item; without a global item, or for an empty list, (True,
\* True, True).
C29_ExpressionConfigForChat ==
    LET ls == expr.learning_list
        c  == expr.chat_stream_id
    IN  (expr.pc \in {"returned", "raised"} /\ ~expr.hash_fails) =>
            /\ expr.pc = "returned"
            /\ MatchingItems(ls, c) # {} =>
                    \E i \in MatchingItems(ls, c) : expr.ret = ItemFlags(ls[i])
            /\ (MatchingItems(ls, c) = {} /\ GlobalItems(ls) # {}) =>
                    \E i \in GlobalItems(ls) : expr.ret = ItemFlags(ls[i])
            /\ (MatchingItems(ls, c) = {} /\ GlobalItems(ls) = {}) =>
                    expr.ret = <<TRUE, TRUE, TRUE>>

\* C30: once a call of get_fastest_mirror has completed a speed test, a call
\* that begins later starts no speed test and returns the mirror that call
\* returned, also when every mirror failed and the default was returned.
C30_MirrorCachedAfterFirstTest ==
    \A t \in Threads :
        mirror.callers[t].late =>
            /\ mirror.callers[t].pc # "testing"
            /\ mirror.callers[t].pc = "returned" => mirror.callers[t].ret = mirror.first

\* C21: a constructor call with a key that is no declared field fails before
\* model_post_init is entered and produces no instance.
C21_UnknownKeyRejected ==
    (pc # "init" /\ kwargs \ DeclaredNames # {}) =>
        /\ pc = "failed"
        /\ idx = 0
        /\ \A i \in 1..Len(ran) : ran[i] = "nested"

C21_Witness ==
    /\ fields = <<IntT>>
    /\ kwargs = {"f", "zz"}
    /\ vals = <<"ok">>
    /\ pc = "failed"
    /\ result.kind = "ValidationError"

\* the value passes what a construction of the class checks for the field:
\* its type and, in a class with a hook, the hook's business rules
ConstructionAccepts(v) == v = "ok"

\* C22: every field of an instance holds a value that a construction would
\* accept, after construction and after every reassignment: a reassignment
\* is rejected, leaving the value, exactly when a construction would reject
\* the value.
C22_NoDriftOnReassign ==
    pc = "done" =>
        /\ \A j \in 1..Len(fields) : ConstructionAccepts(vals[j])
        /\ assign.field # 0 => (assign.err = NoErr <=> ConstructionAccepts(assign.value))

\* C23: the value of a field typed as a ConfigBase subclass is constructed,
\* and its class validated, before the parent's model_post_init examines any
\* field or runs its hook; a grammar violation in the nested class makes the
\* parent's construction fail with it.
C23_NestedValidatedFirst ==
    (pc # "init" /\ NestedBuilt) =>
        /\ ran # <<>> /\ ran[1] = "nested"
        /\ \A i \in 2..Len(ran) : ran[i] # "nested"
        /\ CheckFieldsFrom(nested, 1).err # NoErr =>
                /\ pc = "failed"
                /\ result = CheckFieldsFrom(nested, 1).err
                /\ idx = 0 /\ ran = <<"nested">>

C23_Witness ==
    /\ fields = <<IntT, ConfigT>>
    /\ nested = <<Alias("tuple", <<IntT, IntT>>)>>
    /\ pc = "failed"
    /\ result.kind = "Tuple"
    /\ ran = <<"nested">>

====
